---- MODULE Spec2Model ----
(***************************************************************************)
(* Model of the conversational CSV analysis application (src/App.tsx):     *)
(* the column profiler (analyzeColumns), the integrity validator           *)
(* (validateCsvData), the upload handler (handleFileUpload) and the send   *)
(* handler with its payload extraction (handleSend).                       *)
(*                                                                         *)
(* Text is a sequence of symbols.  One symbol is one character, except     *)
(* that the three-backtick fence, the tags csv and json, and a complete    *)
(* well-formed JSON chart object are each one symbol:                      *)
(*   "NL" newline   "," comma   " " blank   "q" double quote   "." point   *)
(*   "1" .. "5" digits   "a" "b" "c" "x" letters                           *)
(*   "F" the fence ```   "csv" "json" the fence tags   "J" a chart object  *)
(*   "N/A" "yes" the words N/A and yes, which no operation takes apart     *)
(* Numbers are held in thousandths (1.5 is 1500), so that rounding to two  *)
(* decimals is visible: a rounded value is a multiple of 10.               *)
(***************************************************************************)
EXTENDS Integers, Sequences, FiniteSets, TLC

VARIABLES
    messages,      \* useState<Message[]>        App.tsx:199
    isLoading,     \* useState<boolean>          App.tsx:206
    uploadedFile,  \* useState<{name, columns} | null>  App.tsx:207
    csvData,       \* useState<string | null>    App.tsx:208
    crashed,       \* an error escaped a state updater during render
    file,          \* the File last read by handleFileUpload (name, text)
    aiResponse,    \* the local aiResponse of the last resumed handleSend
    pending,       \* calls of analyzeDataWithGemini not yet settled
    ids,           \* the id of each message, where the ids are followed
    clock,         \* Date.now(), where the ids are followed
    text,          \* input of the profiling pass under check
    columns,       \* result of analyzeColumns(text)
    issues,        \* result of validateCsvData on that table
    report,        \* result of formatValidationIssues on those issues
    pieces,        \* the parts a response text under check is built of
    extracted,     \* result of the payload extraction on that response
    rendered       \* what Message shows for the chart of that ai message

vars == <<messages, isLoading, uploadedFile, csvData, crashed, file, aiResponse,
          pending, ids, clock,
          text, columns, issues, report, pieces, extracted, rendered>>

appVars == <<messages, isLoading, uploadedFile, csvData, crashed, file, aiResponse,
            pending, ids, clock>>
stampVars == <<ids, clock>>
profileVars == <<text, columns, issues, report>>
extractVars == <<pieces, extracted, rendered>>

\* null / undefined, and a present value
None == <<>>
Some(v) == <<v>>

----------------------------------------------------------------------------
(* String primitives of the runtime *)

Digits == {"1", "2", "3", "4", "5"}

DigitValue(ch) == CHOOSE n \in 1..5 : <<"1", "2", "3", "4", "5">>[n] = ch

\* characters String.prototype.trim removes
IsSpace(ch) == ch \in {" ", "NL"}

RECURSIVE TrimStart(_)
TrimStart(s) == IF s # <<>> /\ IsSpace(Head(s)) THEN TrimStart(Tail(s)) ELSE s

RECURSIVE TrimEnd(_)
TrimEnd(s) ==
    IF s # <<>> /\ IsSpace(s[Len(s)]) THEN TrimEnd(SubSeq(s, 1, Len(s) - 1)) ELSE s

\* String.prototype.trim
trim(s) == TrimEnd(TrimStart(s))

\* String.prototype.split(sep) for a one-character separator
RECURSIVE split(_, _)
split(s, sep) ==
    IF \E i \in 1..Len(s) : s[i] = sep
    THEN LET i == CHOOSE k \in 1..Len(s) :
                      s[k] = sep /\ \A j \in 1..(k - 1) : s[j] # sep
         IN  <<SubSeq(s, 1, i - 1)>> \o split(SubSeq(s, i + 1, Len(s)), sep)
    ELSE <<s>>

NotQuote(ch) == ch # "q"

\* .replace(/"/g, '')
removeQuotes(s) == SelectSeq(s, NotQuote)

\* line.split(',').map(cell => cell.trim().replace(/"/g, ''))
parseCells(line) ==
    LET raw == split(line, ",")
    IN  [i \in 1..Len(raw) |-> removeQuotes(trim(raw[i]))]

RECURSIVE DigitsValue(_)
DigitsValue(s) ==
    IF s = <<>> THEN 0
    ELSE 10 * DigitsValue(SubSeq(s, 1, Len(s) - 1))
         + DigitValue(s[Len(s)])

Pow10(n) == IF n = 0 THEN 1 ELSE IF n = 1 THEN 10 ELSE IF n = 2 THEN 100 ELSE 1000

\* Number(v): [nan, milli].  The numeric literals of the alphabet are
\* digits with at most one point and at least one digit; blank is 0.
Number(v) ==
    LET t == trim(v)
        pts == {i \in 1..Len(t) : t[i] = "."}
        ok == /\ \A i \in 1..Len(t) : t[i] \in Digits \cup {"."}
              /\ Cardinality(pts) <= 1
              /\ (t # <<>> => \E i \in 1..Len(t) : t[i] \in Digits)
        p == IF pts = {} THEN Len(t) + 1 ELSE CHOOSE i \in pts : TRUE
        whole == SubSeq(t, 1, p - 1)
        frac == SubSeq(t, p + 1, Len(t))
        fracLen == IF Len(frac) > 3 THEN 3 ELSE Len(frac)
    IN  IF ~ok THEN [nan |-> TRUE, milli |-> 0]
        ELSE [nan |-> FALSE,
              milli |-> 1000 * DigitsValue(whole)
                        + DigitsValue(SubSeq(frac, 1, fracLen)) * Pow10(3 - fracLen)]

\* const isNumeric = (v) => v.trim() !== '' && !isNaN(Number(v))
isNumeric(v) == trim(v) # <<>> /\ ~Number(v).nan

----------------------------------------------------------------------------
(* Statistics: src/App.tsx:24-52 *)

RECURSIVE SumSeq(_)
SumSeq(s) == IF s = <<>> THEN 0 ELSE Head(s) + SumSeq(Tail(s))

NumLess(a, b) == a < b

\* parseFloat((num / den).toFixed(2)) for num / den >= 0 in thousandths:
\* the nearest multiple of 10
toFixed2(num, den) == 10 * ((2 * num + 10 * den) \div (20 * den))

\* Math.sqrt(q / den) rounded to the nearest integer: the least r with
\* q / den below (r + 1/2) squared
RoundSqrt(q, den) ==
    CHOOSE r \in 0..(q \div den + 1) :
        /\ (2 * r + 1) * (2 * r + 1) * den > 4 * q
        /\ (r = 0 \/ (2 * r - 1) * (2 * r - 1) * den <= 4 * q)

RECURSIVE SquaredDeviations(_, _, _)
SquaredDeviations(data, n, sum) ==
    IF data = <<>> THEN 0
    ELSE (n * Head(data) - sum) * (n * Head(data) - sum)
         + SquaredDeviations(Tail(data), n, sum)

\* getNumericStats taking the middle, the first and the last element of the
\* data as they come, without sorting
getNumericStats_unsorted(data) ==
    IF Len(data) = 0
    THEN [mean |-> 0, median |-> 0, stdDev |-> 0, min |-> 0, max |-> 0]
    ELSE LET sorted == data
             n == Len(data)
             sum == SumSeq(data)
             mid == n \div 2
             q == SquaredDeviations(data, n, sum)
         IN  [mean |-> toFixed2(sum, n),
              median |-> IF n % 2 = 0
                         THEN toFixed2(sorted[mid] + sorted[mid + 1], 2)
                         ELSE toFixed2(sorted[mid + 1], 1),
              stdDev |-> 10 * RoundSqrt(q, 100 * n * n * n),
              min |-> sorted[1],
              max |-> sorted[n]]

\* getNumericStats: mean, median and stdDev through toFixed(2), min and
\* max taken from the sorted copy as they are
getNumericStats(data) ==
    IF Len(data) = 0
    THEN [mean |-> 0, median |-> 0, stdDev |-> 0, min |-> 0, max |-> 0]
    ELSE LET sorted == SortSeq(data, NumLess)
             n == Len(data)
             sum == SumSeq(data)
             mid == n \div 2
             \* sum of (x - mean)^2 is SquaredDeviations / n^2; divided by
             \* n and by 100 (tens of thousandths) under the root
             q == SquaredDeviations(data, n, sum)
         IN  [mean |-> toFixed2(sum, n),
              median |-> IF n % 2 = 0
                         THEN toFixed2(sorted[mid] + sorted[mid + 1], 2)
                         ELSE toFixed2(sorted[mid + 1], 1),
              stdDev |-> 10 * RoundSqrt(q, 100 * n * n * n),
              min |-> sorted[1],
              max |-> sorted[n]]

Range(s) == {s[i] : i \in 1..Len(s)}

\* getCategoricalStats: occurrence count per distinct value
getCategoricalStats(data) ==
    LET valueCounts ==
            [v \in Range(data) |-> Cardinality({i \in 1..Len(data) : data[i] = v})]
    IN  [valueCounts |-> valueCounts, uniqueValues |-> Cardinality(DOMAIN valueCounts)]

----------------------------------------------------------------------------
(* Column profiling: src/App.tsx:62-100 *)

\* Number(v) of a value already known to be numeric
NumberOf(v) == Number(v).milli

NotBlank(v) == trim(v) # <<>>

\* rows.map(row => row[colIndex]).filter(v => v !== undefined)
RECURSIVE columnValuesOf(_, _)
columnValuesOf(rows, colIndex) ==
    IF rows = <<>> THEN <<>>
    ELSE (IF colIndex <= Len(Head(rows)) THEN <<Head(rows)[colIndex]>> ELSE <<>>)
         \o columnValuesOf(Tail(rows), colIndex)

\* the callback labelling a column of at most 2 distinct values Boolean
\* before it looks whether the values are numbers
columnInfoOf_relabelFirst(header, colIndex, rows) ==
    LET columnValues == columnValuesOf(rows, colIndex)
        nonMissingValues == SelectSeq(columnValues, NotBlank)
        missingCount == Len(columnValues) - Len(nonMissingValues)
        totalRows == Len(rows)
        isPotentiallyNumeric ==
            \A i \in 1..Len(nonMissingValues) : isNumeric(nonMissingValues[i])
        base == [name |-> header, hasMissingValues |-> missingCount > 0,
                 missingCount |-> missingCount, totalRows |-> totalRows]
    IN  IF Cardinality(Range(nonMissingValues)) <= 2 /\ Len(nonMissingValues) > 0
        THEN base @@ [type |-> "Boolean",
                      stats |-> Some(getCategoricalStats(nonMissingValues))]
        ELSE IF isPotentiallyNumeric /\ Len(nonMissingValues) > 0
        THEN base @@ [type |-> "Numeric",
                      stats |-> Some(getNumericStats(
                          [i \in 1..Len(nonMissingValues) |->
                              NumberOf(nonMissingValues[i])]))]
        ELSE base @@ [type |-> "String",
                      stats |-> Some(getCategoricalStats(nonMissingValues))]

\* the callback of headers.map in analyzeColumns
columnInfoOf(header, colIndex, rows) ==
    LET columnValues == columnValuesOf(rows, colIndex)
        nonMissingValues == SelectSeq(columnValues, NotBlank)
        missingCount == Len(columnValues) - Len(nonMissingValues)
        totalRows == Len(rows)
        isPotentiallyNumeric ==
            \A i \in 1..Len(nonMissingValues) : isNumeric(nonMissingValues[i])
        base == [name |-> header, hasMissingValues |-> missingCount > 0,
                 missingCount |-> missingCount, totalRows |-> totalRows]
    IN  IF isPotentiallyNumeric /\ Len(nonMissingValues) > 0
        THEN base @@ [type |-> "Numeric",
                      stats |-> Some(getNumericStats(
                          [i \in 1..Len(nonMissingValues) |->
                              NumberOf(nonMissingValues[i])]))]
        ELSE base @@ [type |-> IF Cardinality(Range(nonMissingValues)) <= 2
                                  /\ Len(nonMissingValues) > 0
                               THEN "Boolean" ELSE "String",
                      stats |-> Some(getCategoricalStats(nonMissingValues))]

\* lines of the trimmed text, the header cells and the data rows
linesOf(csvText) == split(trim(csvText), "NL")
headersOf(csvText) == parseCells(linesOf(csvText)[1])
rowsOf(csvText) ==
    LET lines == linesOf(csvText)
    IN  [i \in 1..(Len(lines) - 1) |-> parseCells(lines[i + 1])]

analyzeColumns(csvText) ==
    IF Len(linesOf(csvText)) < 2 THEN <<>>
    ELSE LET headers == headersOf(csvText)
             rows == rowsOf(csvText)
         IN  [colIndex \in 1..Len(headers) |->
                 columnInfoOf(headers[colIndex], colIndex, rows)]

----------------------------------------------------------------------------
(* Integrity validation: src/App.tsx:131-163 *)

\* the inner row.forEach: cells of one row, left to right
RECURSIVE mixedTypeIssues(_, _, _, _, _)
mixedTypeIssues(row, rowIndex, colIndex, headers, numericColumns) ==
    IF colIndex > Len(row) THEN <<>>
    ELSE LET cell == row[colIndex]
             header == headers[colIndex]
         IN  (IF header \in numericColumns /\ trim(cell) # <<>> /\ ~isNumeric(cell)
              THEN <<[type |-> "MIXED_DATA_TYPE", column |-> Some(header),
                      row |-> rowIndex + 1, value |-> Some(cell),
                      message |-> [value |-> cell, header |-> header]]>>
              ELSE <<>>)
             \o mixedTypeIssues(row, rowIndex, colIndex + 1, headers, numericColumns)

\* the outer loop numbering the rows from the header line instead of from 1:
\* the header row is not counted
RECURSIVE rowIssues_headerNotCounted(_, _, _, _)
rowIssues_headerNotCounted(rows, rowIndex, headers, numericColumns) ==
    IF rowIndex > Len(rows) THEN <<>>
    ELSE LET row == rows[rowIndex]
         IN  (IF Len(row) # Len(headers)
              THEN <<[type |-> "INCONSISTENT_ROW_LENGTH", column |-> None,
                      row |-> rowIndex, value |-> None,
                      message |-> [expected |-> Len(headers), found |-> Len(row)]]>>
              ELSE mixedTypeIssues(row, rowIndex, 1, headers, numericColumns))
             \o rowIssues_headerNotCounted(rows, rowIndex + 1, headers, numericColumns)

\* the outer loop stopping at the first row that has an issue
RECURSIVE rowIssues_firstRowOnly(_, _, _, _)
rowIssues_firstRowOnly(rows, rowIndex, headers, numericColumns) ==
    IF rowIndex > Len(rows) THEN <<>>
    ELSE LET row == rows[rowIndex]
             found == IF Len(row) # Len(headers)
                      THEN <<[type |-> "INCONSISTENT_ROW_LENGTH", column |-> None,
                              row |-> rowIndex + 1, value |-> None,
                              message |-> [expected |-> Len(headers),
                                           found |-> Len(row)]]>>
                      ELSE mixedTypeIssues(row, rowIndex, 1, headers, numericColumns)
         IN  IF found # <<>> THEN found
             ELSE rowIssues_firstRowOnly(rows, rowIndex + 1, headers, numericColumns)

\* the outer rows.forEach; rowIndex is 1-based here, so the reported row
\* number rowIndex + 2 of the code is rowIndex + 1
RECURSIVE rowIssues(_, _, _, _)
rowIssues(rows, rowIndex, headers, numericColumns) ==
    IF rowIndex > Len(rows) THEN <<>>
    ELSE LET row == rows[rowIndex]
         IN  (IF Len(row) # Len(headers)
              THEN <<[type |-> "INCONSISTENT_ROW_LENGTH", column |-> None,
                      row |-> rowIndex + 1, value |-> None,
                      message |-> [expected |-> Len(headers), found |-> Len(row)]]>>
              ELSE mixedTypeIssues(row, rowIndex, 1, headers, numericColumns))
             \o rowIssues(rows, rowIndex + 1, headers, numericColumns)

\* validateCsvData taking every column that is not of type String for a
\* numeric one
validateCsvData_notString(headers, rows, columnInfo) ==
    LET numericColumns ==
            {columnInfo[i].name : i \in {k \in 1..Len(columnInfo) :
                                            columnInfo[k].type # "String"}}
    IN  rowIssues(rows, 1, headers, numericColumns)

validateCsvData(headers, rows, columnInfo) ==
    LET numericColumns ==
            {columnInfo[i].name : i \in {k \in 1..Len(columnInfo) :
                                            columnInfo[k].type = "Numeric"}}
    IN  rowIssues(rows, 1, headers, numericColumns)

----------------------------------------------------------------------------
(* The validation report: src/App.tsx:170-195 *)

MAX_ISSUES_TO_SHOW == 5

MsgValidationFailed == <<"**Data Validation Failed**">>

\* the template literals of issue.message, App.tsx:142 and 156
messageText(issue) ==
    IF issue.type = "MIXED_DATA_TYPE"
    THEN <<"Found non-numeric value \"">> \o issue.message.value
         \o <<"\" in the supposedly numeric column \"">> \o issue.message.header
         \o <<"\".">>
    ELSE <<"Expected ", ToString(issue.message.expected),
           " columns, but found ", ToString(issue.message.found), ".">>

\* one bullet of the summary, App.tsx:173-178
issueLine(issue) ==
    IF issue.type = "MIXED_DATA_TYPE"
    THEN <<"*   **Mixed Data Type** in column ">> \o issue.column[1]
         \o <<" (Row ", ToString(issue.row), "): ">> \o messageText(issue)
    ELSE <<"*   **Inconsistent Row Length** at Row ", ToString(issue.row), ": ">>
         \o messageText(issue)

RECURSIVE JoinLines(_)
JoinLines(ls) ==
    IF ls = <<>> THEN <<>>
    ELSE IF Len(ls) = 1 THEN ls[1]
    ELSE ls[1] \o <<"NL">> \o JoinLines(Tail(ls))

\* the report announcing a remainder from MAX_ISSUES_TO_SHOW issues on
formatValidationIssues_fromFive(found) ==
    LET shown == SubSeq(found, 1, IF Len(found) < MAX_ISSUES_TO_SHOW
                                  THEN Len(found) ELSE MAX_ISSUES_TO_SHOW)
        issueSummary == JoinLines([i \in 1..Len(shown) |-> issueLine(shown[i])])
        moreIssuesMessage ==
            IF Len(found) >= MAX_ISSUES_TO_SHOW
            THEN <<"NL", "...and ", ToString(Len(found) - MAX_ISSUES_TO_SHOW),
                   " more issues.">>
            ELSE <<>>
    IN  MsgValidationFailed \o <<"NL", "Here are the first few issues I found:", "NL">>
        \o issueSummary \o <<"NL">> \o moreIssuesMessage

\* formatValidationIssues: the first MAX_ISSUES_TO_SHOW issues, one bullet
\* each, and the count of the rest when there are more
formatValidationIssues(found) ==
    LET shown == SubSeq(found, 1, IF Len(found) < MAX_ISSUES_TO_SHOW
                                  THEN Len(found) ELSE MAX_ISSUES_TO_SHOW)
        issueSummary == JoinLines([i \in 1..Len(shown) |-> issueLine(shown[i])])
        moreIssuesMessage ==
            IF Len(found) > MAX_ISSUES_TO_SHOW
            THEN <<"NL", "...and ", ToString(Len(found) - MAX_ISSUES_TO_SHOW),
                   " more issues.">>
            ELSE <<>>
    IN  MsgValidationFailed \o <<"NL", "Here are the first few issues I found:", "NL">>
        \o issueSummary \o <<"NL">> \o moreIssuesMessage

----------------------------------------------------------------------------
(* Payload extraction: src/App.tsx:292-321 *)

\* the match of the greedy pattern /```tag\n([\s\S]*)\n```/: the leftmost
\* opening fence and the last closing fence after it
fenceMatch_greedy(s, tag) ==
    LET closes(i) == {j \in (i + 3)..(Len(s) - 1) : s[j] = "NL" /\ s[j + 1] = "F"}
        opens == {i \in 1..(Len(s) - 4) :
                     /\ s[i] = "F" /\ s[i + 1] = tag /\ s[i + 2] = "NL"
                     /\ closes(i) # {}}
    IN  IF opens = {} THEN None
        ELSE LET i == CHOOSE k \in opens : \A m \in opens : k <= m
                 j == CHOOSE k \in closes(i) : \A m \in closes(i) : k >= m
             IN  Some([index |-> i, last |-> j + 1, group |-> SubSeq(s, i + 3, j - 1)])

\* aiResponse.match(/```tag\n([\s\S]*?)\n```/): the leftmost opening fence
\* that has a closing fence after it, and the nearest such closing fence
fenceMatch(s, tag) ==
    LET closes(i) == {j \in (i + 3)..(Len(s) - 1) : s[j] = "NL" /\ s[j + 1] = "F"}
        opens == {i \in 1..(Len(s) - 4) :
                     /\ s[i] = "F" /\ s[i + 1] = tag /\ s[i + 2] = "NL"
                     /\ closes(i) # {}}
    IN  IF opens = {} THEN None
        ELSE LET i == CHOOSE k \in opens : \A m \in opens : k <= m
                 j == CHOOSE k \in closes(i) : \A m \in closes(i) : k <= m
             IN  Some([index |-> i, last |-> j + 1, group |-> SubSeq(s, i + 3, j - 1)])

\* s.replace(/```tag\n([\s\S]*?)\n```/, '')
replaceFence(s, tag) ==
    LET m == fenceMatch(s, tag)
    IN  IF m = None THEN s
        ELSE SubSeq(s, 1, m[1].index - 1) \o SubSeq(s, m[1].last + 1, Len(s))

\* the fields of a chart object as the response writes them: "type": one
\* of the tags, and "data", "dataKey", "categoryKey", "xKey", "yKey" with a
\* non-empty value
TypeTokens == {"bar", "line", "area", "pie", "scatter", "radar"}
KeyTokens == {"categoryKey", "dataKey", "xKey", "yKey"}
FieldTokens == TypeTokens \cup KeyTokens \cup {"data"}

\* the value of an object literal with the fields t: of a repeated "type"
\* the last one counts
objectValue(t) ==
    LET types == {i \in 1..Len(t) : t[i] \in TypeTokens}
    IN  [kind |-> "object",
         type |-> IF types = {} THEN "undefined"
                  ELSE t[CHOOSE i \in types : \A j \in types : i >= j],
         fields |-> Range(t) \ TypeTokens]

\* a value without fields: a number or a string
plainValue(kind) == [kind |-> kind, type |-> "undefined", fields |-> {}]

\* JSON.parse of the symbols of the alphabet: an object literal, "J" (a bar
\* chart with data and both keys) or fields between braces; a number
\* (digits, optionally a point with digits on both sides); or a string
\* literal between double quotes; anything else throws
JSONparse(body) ==
    LET t == trim(body)
        pts == {i \in 1..Len(t) : t[i] = "."}
        isNumber == /\ t # <<>>
                    /\ \A i \in 1..Len(t) : t[i] \in Digits \cup {"."}
                    /\ Cardinality(pts) <= 1
                    /\ t[1] # "." /\ t[Len(t)] # "."
        isString == /\ Len(t) >= 2 /\ t[1] = "q" /\ t[Len(t)] = "q"
                    /\ \A i \in 2..(Len(t) - 1) : t[i] \notin {"q", "NL"}
        isObject == /\ Len(t) >= 2 /\ t[1] = "{" /\ t[Len(t)] = "}"
                    /\ \A i \in 2..(Len(t) - 1) : t[i] \in FieldTokens
    IN  IF t = <<"J">>
        THEN [ok |-> TRUE, kind |-> "object", truthy |-> TRUE,
              value |-> objectValue(<<"bar", "data", "categoryKey", "dataKey">>)]
        ELSE IF isObject
        THEN [ok |-> TRUE, kind |-> "object", truthy |-> TRUE,
              value |-> objectValue(SubSeq(t, 2, Len(t) - 1))]
        ELSE IF isNumber
        THEN [ok |-> TRUE, kind |-> "number", truthy |-> TRUE,
              value |-> plainValue("number")]
        ELSE IF isString
        THEN [ok |-> TRUE, kind |-> "string", truthy |-> Len(t) > 2,
              value |-> plainValue("string")]
        ELSE [ok |-> FALSE, kind |-> "error", truthy |-> FALSE,
              value |-> plainValue("error")]

\* lines 292-321 of handleSend as a function of the response text:
\* the replacement dataset (if any), the chart (if any), the text shown
extractPayload(response) ==
    LET chartMatch == fenceMatch(response, "json")
        csvMatch == fenceMatch(response, "csv")
        \* if (csvMatch && csvMatch[1])
        csvTaken == csvMatch # None /\ csvMatch[1].group # <<>>
        afterCsv == IF csvTaken THEN trim(replaceFence(response, "csv")) ELSE response
        \* if (chartMatch && chartMatch[1])
        chartTried == chartMatch # None /\ chartMatch[1].group # <<>>
        parsed == JSONparse(chartMatch[1].group)
        chartParsed == chartTried /\ parsed.ok
    IN  [newCsvData |-> IF csvTaken THEN Some(trim(csvMatch[1].group)) ELSE None,
         chartData |-> IF chartParsed /\ parsed.truthy THEN Some(parsed.value) ELSE None,
         responseText |-> IF chartParsed THEN trim(replaceFence(afterCsv, "json"))
                          ELSE afterCsv]

----------------------------------------------------------------------------
(* Rendering of a chart: src/components/ChartDisplay.tsx:27-159 *)

NoticeKeys(name) == <<name, "chart requires a categoryKey and a dataKey.">>
NoticeScatter == <<"Scatter", "chart requires an xKey and a yKey.">>
NoticeUnsupported(type) == <<"Unsupported chart type:", type>>
Drawn(type) == <<"chart", type>>
RenderThrows == <<"TypeError">>

\* renderChart giving the notice only when both keys of the pair are missing
renderChart_bothMissing(chart) ==
    LET has(k) == k \in chart.fields
        name == [bar |-> "Bar", line |-> "Line", area |-> "Area", pie |-> "Pie"]
    IN  IF chart.type \in {"bar", "line", "area"}
        THEN IF ~has("categoryKey") /\ ~has("dataKey")
             THEN NoticeKeys(name[chart.type])
             ELSE Drawn(chart.type)
        ELSE IF chart.type = "scatter"
        THEN IF ~has("xKey") /\ ~has("yKey") THEN NoticeScatter
             ELSE Drawn(chart.type)
        ELSE IF chart.type = "pie"
        THEN IF ~has("categoryKey") /\ ~has("dataKey") THEN NoticeKeys("Pie")
             ELSE IF ~has("data") THEN RenderThrows
             ELSE Drawn(chart.type)
        ELSE NoticeUnsupported(chart.type)

\* renderChart on the destructured chartData: the notice for a missing key
\* pair, the chart, or the notice of the default case; the pie maps over
\* data before anything is drawn
renderChart(chart) ==
    LET has(k) == k \in chart.fields
        name == [bar |-> "Bar", line |-> "Line", area |-> "Area", pie |-> "Pie"]
    IN  IF chart.type \in {"bar", "line", "area"}
        THEN IF ~has("categoryKey") \/ ~has("dataKey")
             THEN NoticeKeys(name[chart.type])
             ELSE Drawn(chart.type)
        ELSE IF chart.type = "scatter"
        THEN IF ~has("xKey") \/ ~has("yKey") THEN NoticeScatter
             ELSE Drawn(chart.type)
        ELSE IF chart.type = "pie"
        THEN IF ~has("categoryKey") \/ ~has("dataKey") THEN NoticeKeys("Pie")
             ELSE IF ~has("data") THEN RenderThrows
             ELSE Drawn(chart.type)
        ELSE NoticeUnsupported(chart.type)

\* Message: {chartData && <ChartDisplay chartData={chartData} />}
renderMessageChart(chartData) ==
    IF chartData = None THEN None ELSE Some(renderChart(chartData[1]))

----------------------------------------------------------------------------
(* Inputs *)

MaxMessages == 6         \* transcript length the handlers are explored up to
MaxPieces == 3           \* parts of a response text in the extraction check
MaxCols == 2             \* cells per line of a generated table
MaxRows == 1             \* data lines of a generated table
MaxWidth == 3            \* header cells of a table given to the validator
MaxCells == 4            \* data cells, over all rows, of such a table
MaxReportRows == 6       \* data rows of a table whose issues are reported
MaxValues == 4           \* data rows of a table profiled column by column
MaxNumbers == 4          \* data rows of a table of numbers
MaxCellLen == 3          \* characters of a cell as the file has it
MaxDecimals == 3         \* data rows of a table of decimal numbers
MaxClock == 3            \* the last millisecond the clock is followed to

RECURSIVE Join(_, _)
Join(parts, sep) ==
    IF parts = <<>> THEN <<>>
    ELSE IF Len(parts) = 1 THEN parts[1]
    ELSE parts[1] \o <<sep>> \o Join(Tail(parts), sep)

RECURSIVE Flatten(_)
Flatten(parts) == IF parts = <<>> THEN <<>> ELSE Head(parts) \o Flatten(Tail(parts))

SeqsUpTo(S, n) == UNION {[1..k -> S] : k \in 0..n}

\* a fenced block as the text-generation service writes it
Fence(tag, body) == <<"F", tag, "NL">> \o body \o <<"NL", "F">>

Render(piece) ==
    IF piece.kind = "text" THEN piece.body ELSE Fence(piece.kind, piece.body)

RenderAll(ps) == Flatten([i \in 1..Len(ps) |-> Render(ps[i])])

Blocks(kind, bodies) == {[kind |-> kind, body |-> b] : b \in bodies}

\* file names and file texts offered to the upload handler
FileNames == {"f.csv", "g.csv"}
UploadTexts ==
    { <<>>,                                          \* empty file
      <<"a">>,                                       \* header only
      <<"a", "NL", "1">>,                            \* one numeric column
      <<"a", ",", "b", "NL", "1", ",">>,             \* a missing cell
      <<"a", ",", "b", "NL", "1">>,                  \* a short row
      <<"q", "a", "q", "NL", "q", "x", "q", "NL">> } \* quoted cells

\* user texts offered to handleSend
Queries == {<<"x">>, <<" ">>, <<>>}

\* response texts the text-generation service returns to the application
ResponseShapes ==
    { <<>>,
      <<[kind |-> "text", body |-> <<"x">>]>>,
      <<[kind |-> "text", body |-> <<"x">>], [kind |-> "csv", body |-> <<"b", "NL", "2">>]>>,
      <<[kind |-> "csv", body |-> <<"a", ",", "b", "NL", "2">>]>>,
      <<[kind |-> "csv", body |-> <<"a">>], [kind |-> "text", body |-> <<"x">>]>>,
      <<[kind |-> "csv", body |-> <<" ">>]>>,
      <<[kind |-> "csv", body |-> <<>>]>>,
      <<[kind |-> "text", body |-> <<"x">>], [kind |-> "json", body |-> <<"J">>]>>,
      <<[kind |-> "json", body |-> <<"x">>], [kind |-> "text", body |-> <<"x">>]>>,
      <<[kind |-> "csv", body |-> <<"b", "NL", "2">>], [kind |-> "json", body |-> <<"J">>]>>,
      <<[kind |-> "json", body |-> <<"J">>], [kind |-> "csv", body |-> <<"b", "NL", "2">>]>> }

Responses == {RenderAll(ps) : ps \in ResponseShapes}

\* parts of the response texts of the extraction check
ExtractPieces ==
    Blocks("text", {<<"x">>, <<"NL">>})
    \cup Blocks("csv", {<<>>, <<" ">>, <<"a", "NL", "1">>})
    \cup Blocks("json", {<<"J">>, <<"x">>, <<"1">>})

\* chart objects: an optional type, any of the four keys, data or not
RECURSIVE SeqOfSet(_)
SeqOfSet(S) ==
    IF S = {} THEN <<>>
    ELSE LET x == CHOOSE y \in S : TRUE IN <<x>> \o SeqOfSet(S \ {x})

ChartBodies ==
    {<<"{">> \o type \o SeqOfSet(fields) \o <<"}">> :
        type \in {<<>>} \cup {<<t>> : t \in TypeTokens},
        fields \in SUBSET (KeyTokens \cup {"data"})}

\* responses with one json block holding a chart object, alone or after text
ChartResponses ==
    {<<b>> : b \in Blocks("json", ChartBodies)}
    \cup {<<[kind |-> "text", body |-> <<"x">>], b>> : b \in Blocks("json", ChartBodies)}

\* generated tables: a header line and up to MaxRows data lines of up to
\* MaxCols cells each
CellValues == {<<>>, <<"1">>, <<"a">>}
TableLines == {Join(cells, ",") : cells \in SeqsUpTo(CellValues, MaxCols) \ {<<>>}}
TableTexts == {Join(ls, "NL") : ls \in SeqsUpTo(TableLines, MaxRows + 1)}

\* tables for the validator: a header of up to MaxWidth cells, all named a,
\* or the last one without a name, or named a, b, c, and data rows of numeric and non-numeric
\* cells holding up to MaxCells cells together, so that rows are shorter
\* than, as long as and longer than the header
DataCells == {<<"1">>, <<"N/A">>, <<"x">>}

HeaderNames == <<"a", "b", "c">>

HeaderCells(w) ==
    {[i \in 1..w |-> <<"a">>]}
    \cup (IF w > 1 THEN {[i \in 1..w |-> IF i < w THEN <<"a">> ELSE <<>>]} ELSE {})
    \cup (IF w > 1 THEN {[i \in 1..w |-> <<HeaderNames[((i - 1) % 3) + 1]>>]} ELSE {})

RECURSIVE RowsWithin(_)
RowsWithin(n) ==
    {<<>>} \cup UNION {{<<r>> \o rest : r \in [1..k -> DataCells],
                                       rest \in RowsWithin(n - k)} : k \in 1..n}

TableOf(headers, rows) ==
    Join(<<Join(headers, ",")>> \o [i \in 1..Len(rows) |-> Join(rows[i], ",")], "NL")

\* tables for the report: the header a,a and up to MaxReportRows rows, each
\* one short, or sound, or with a non-numeric cell under the numeric name
ReportRows == {<<<<"1">>>>, <<<<"1">>, <<"1">>>>, <<<<"1">>, <<"x">>>>}

ReportTexts ==
    {TableOf(<<<<"a">>, <<"a">>>>, rows) :
        rows \in SeqsUpTo(ReportRows, MaxReportRows) \ {<<>>}}

\* tables for the column profile: the header a,b and up to MaxValues rows
\* 1,v with v a blank, a number or a word
ColumnCells ==
    {<<>>, <<"1">>, <<"2">>, <<"a">>, <<"b">>, <<"yes">>}

ColumnTexts ==
    {TableOf(<<<<"a">>, <<"b">>>>, [i \in 1..Len(vs) |-> <<<<"1">>, vs[i]>>]) :
        vs \in SeqsUpTo(ColumnCells, MaxValues) \ {<<>>}}

\* tables for the statistics: the header a,b and up to MaxNumbers rows 1,v
\* with v a blank or a number
NumberCells == {<<>>, <<"1">>, <<"2">>, <<"3">>, <<"4">>}

NumberTexts ==
    {TableOf(<<<<"a">>, <<"b">>>>, [i \in 1..Len(vs) |-> <<<<"1">>, vs[i]>>]) :
        vs \in SeqsUpTo(NumberCells, MaxNumbers) \ {<<>>}}

\* tables for the rounding of the statistics: the header a,b and up to
\* MaxDecimals rows 1,v with v a blank or a number of up to 3 decimals
DecimalCells ==
    {<<>>, <<"1">>, <<"3">>, <<"2", ".", "5">>, <<"1", ".", "2", "3", "4">>}

DecimalTexts ==
    {TableOf(<<<<"a">>, <<"b">>>>, [i \in 1..Len(vs) |-> <<<<"1">>, vs[i]>>]) :
        vs \in SeqsUpTo(DecimalCells, MaxDecimals) \ {<<>>}}

\* tables for the cell parser: one header cell and one data cell as the file
\* has them, of letters, double quotes and blanks
RawCells == SeqsUpTo({"a", "q", " "}, MaxCellLen) \ {<<>>}

RawTexts == {h \o <<"NL">> \o v : h \in RawCells, v \in RawCells}

ValidatorTexts ==
    {TableOf(h, rows) : h \in UNION {HeaderCells(w) : w \in 1..MaxWidth},
                        rows \in RowsWithin(MaxCells) \ {<<>>}}

----------------------------------------------------------------------------
(* The application: src/App.tsx:198-331 *)

Msg(sender, body, chart) == [sender |-> sender, text |-> body, chartData |-> chart]

\* addMessage without the id (Date.now())
addMessage(msgs, sender, body) == Append(msgs, Msg(sender, body, None))

Greeting == <<"Hello! I am your conversational data analysis assistant.">>
MsgFailedRead == <<"Failed to read the uploaded file.">>
MsgNeedsRows == <<"The CSV file must contain a header and at least one row of data.">>
MsgNoColumns(name) == <<"Could not parse columns from ", name>>
MsgUploaded(name) == <<"Successfully uploaded ", name>>
MsgMissingValues == <<"**Data Quality Suggestion: Missing Values Detected**">>
MsgWhatNext(name) == <<"What would you like to know about ", name>>
MsgUpdated == <<"Dataset has been updated. Column analysis is refreshed.">>
MsgApology == <<"Sorry, I encountered an error. Please check your API key and try again.">>

\* the ids are not followed
stampIdle == ids = <<>> /\ clock = 0

profileIdle == text = <<>> /\ columns = None /\ issues = None /\ report = None
extractIdle == pieces = <<>> /\ extracted = None /\ rendered = None

Init ==
    /\ messages = <<Msg("ai", Greeting, None)>>
    /\ isLoading = FALSE
    /\ uploadedFile = None
    /\ csvData = None
    /\ crashed = FALSE
    /\ file = None
    /\ aiResponse = None
    /\ pending = 0
    /\ stampIdle
    /\ profileIdle
    /\ extractIdle

\* the transcript msgs leaves room for the two messages a response still
\* in flight may append
HasRoom(msgs, loading) == Len(msgs) + (IF loading THEN 2 ELSE 0) <= MaxMessages

\* which return of reader.onload a file text takes, App.tsx:222-254, given
\* cols = analyzeColumns(t)
uploadOutcome(t, cols) ==
    IF t = <<>> THEN "unreadable"
    ELSE IF Len(linesOf(t)) < 2 THEN "no rows"
    ELSE IF Len(cols) = 0 THEN "no columns"
    ELSE IF Len(validateCsvData(headersOf(t), rowsOf(t), cols)) > 0 THEN "invalid"
    ELSE "accepted"

\* the dataset state a validation failure leaves but for one setter: the
\* profile of the file before stays
uploadedDataset_keepsFile(outcome, name, t, cols, prevCsv, prevFile) ==
    IF outcome \in {"unreadable", "no rows"}
    THEN [csvData |-> prevCsv, uploadedFile |-> prevFile]
    ELSE IF outcome \in {"no columns", "invalid"}
    THEN [csvData |-> None, uploadedFile |-> prevFile]
    ELSE [csvData |-> Some(t), uploadedFile |-> Some([name |-> name, columns |-> cols])]

\* csvData and uploadedFile as reader.onload leaves them: the setCsvData and
\* setUploadedFile calls of App.tsx:243, 251-252, 256-257
uploadedDataset(outcome, name, t, cols, prevCsv, prevFile) ==
    IF outcome \in {"unreadable", "no rows"}
    THEN [csvData |-> prevCsv, uploadedFile |-> prevFile]
    ELSE IF outcome = "no columns"
    THEN [csvData |-> None, uploadedFile |-> prevFile]
    ELSE IF outcome = "invalid"
    THEN [csvData |-> None, uploadedFile |-> None]
    ELSE [csvData |-> Some(t), uploadedFile |-> Some([name |-> name, columns |-> cols])]

\* the messages reader.onload appends, App.tsx:223, 229, 239, 250, 260-278
uploadMessages(outcome, name, cols, found, msgs) ==
    LET withMissing == {i \in 1..Len(cols) : cols[i].hasMissingValues}
        uploaded == addMessage(msgs, "ai", MsgUploaded(name))
        suggested == IF withMissing # {}
                     THEN addMessage(uploaded, "ai", MsgMissingValues)
                     ELSE uploaded
    IN  IF outcome = "unreadable" THEN addMessage(msgs, "system", MsgFailedRead)
        ELSE IF outcome = "no rows" THEN addMessage(msgs, "system", MsgNeedsRows)
        ELSE IF outcome = "no columns"
        THEN addMessage(msgs, "system", MsgNoColumns(name))
        ELSE IF outcome = "invalid"
        THEN addMessage(msgs, "ai", formatValidationIssues(found))
        ELSE addMessage(suggested, "ai", MsgWhatNext(name))

\* reader.onload of handleFileUpload(file), App.tsx:220-279
handleFileUpload(name, t) ==
    /\ ~crashed
    /\ Len(messages) < MaxMessages
    /\ LET cols == analyzeColumns(t)
           outcome == uploadOutcome(t, cols)
           found == IF outcome = "invalid"
                    THEN validateCsvData(headersOf(t), rowsOf(t), cols)
                    ELSE <<>>
           dataset == uploadedDataset(outcome, name, t, cols, csvData, uploadedFile)
       IN  /\ messages' = uploadMessages(outcome, name, cols, found, messages)
           /\ HasRoom(messages', isLoading)
           /\ csvData' = dataset.csvData
           /\ uploadedFile' = dataset.uploadedFile
    /\ file' = Some([name |-> name, text |-> t])
    /\ UNCHANGED <<isLoading, crashed, aiResponse, pending, profileVars, extractVars>>

HandleFileUpload == \E name \in FileNames, t \in UploadTexts : handleFileUpload(name, t)

\* handleSend without the isLoading half of its first line
handleSend_noLoadingCheck(q) ==
    /\ ~crashed
    /\ IF trim(q) = <<>>
       THEN UNCHANGED <<messages, isLoading, pending>>
       ELSE /\ messages' = addMessage(messages, "user", q)
            /\ HasRoom(messages', TRUE)
            /\ isLoading' = TRUE
            /\ pending' = pending + 1
    /\ UNCHANGED <<uploadedFile, csvData, crashed, file, aiResponse,
                   profileVars, extractVars>>

\* handleSend(text) up to the await, App.tsx:283-290: the call returns at
\* once while a request is in flight or for a blank text; otherwise the
\* user message is appended and analyzeDataWithGemini is called
handleSend(q) ==
    /\ ~crashed
    /\ IF isLoading \/ trim(q) = <<>>
       THEN UNCHANGED <<messages, isLoading, pending>>
       ELSE /\ messages' = addMessage(messages, "user", q)
            /\ HasRoom(messages', TRUE)
            /\ isLoading' = TRUE
            /\ pending' = pending + 1
    /\ UNCHANGED <<uploadedFile, csvData, crashed, file, aiResponse,
                   profileVars, extractVars>>

HandleSend == \E q \in Queries : handleSend(q)

\* a replacement that keeps the column profiles of the dataset before
replacementFile_stale(prev, newCsvData) ==
    [name |-> prev.name, columns |-> prev.columns]

\* the updater prev => ({ name: prev!.name, columns: newColumns }) with
\* newColumns = analyzeColumns(newCsvData), App.tsx:305-306, for prev not null
replacementFile(prev, newCsvData) ==
    [name |-> prev.name, columns |-> analyzeColumns(newCsvData)]

\* handleSend after the await resolved with the text r, App.tsx:292-331.
\* The updater of setUploadedFile reads prev!.name: with no file uploaded it
\* throws while the component renders, nothing catches it, and the
\* application is gone.
handleSendResolved(r) ==
    LET e == extractPayload(r)
        updated == IF e.newCsvData # None
                   THEN addMessage(messages, "system", MsgUpdated)
                   ELSE messages
    IN  /\ ~crashed
        /\ isLoading
        /\ aiResponse' = Some(r)
        /\ pending' = pending - 1
        /\ IF e.newCsvData # None /\ uploadedFile = None
           THEN /\ crashed' = TRUE
                /\ UNCHANGED <<messages, isLoading, uploadedFile, csvData>>
           ELSE /\ IF e.newCsvData # None
                   THEN /\ csvData' = e.newCsvData
                        /\ uploadedFile' =
                               Some(replacementFile(uploadedFile[1], e.newCsvData[1]))
                   ELSE UNCHANGED <<csvData, uploadedFile>>
                /\ messages' = Append(updated, Msg("ai", e.responseText, e.chartData))
                /\ isLoading' = FALSE
                /\ UNCHANGED crashed
        /\ UNCHANGED <<file, profileVars, extractVars>>

HandleSendResolved == \E r \in Responses : handleSendResolved(r)

\* the catch block run twice: two apologies for one failed call
HandleSendRejected_twice ==
    /\ ~crashed
    /\ isLoading
    /\ messages' = addMessage(addMessage(messages, "ai", MsgApology), "ai", MsgApology)
    /\ isLoading' = FALSE
    /\ aiResponse' = None
    /\ pending' = pending - 1
    /\ UNCHANGED <<uploadedFile, csvData, crashed, file, profileVars, extractVars>>

\* handleSend after the await rejected, App.tsx:322-330
HandleSendRejected ==
    /\ ~crashed
    /\ isLoading
    /\ messages' = addMessage(messages, "ai", MsgApology)
    /\ isLoading' = FALSE
    /\ aiResponse' = None
    /\ pending' = pending - 1
    /\ UNCHANGED <<uploadedFile, csvData, crashed, file, profileVars, extractVars>>

\* the handlers with the ids left aside
Next ==
    \/ HandleFileUpload /\ UNCHANGED stampVars
    \/ HandleSend /\ UNCHANGED stampVars
    \/ HandleSendResolved /\ UNCHANGED stampVars
    \/ HandleSendRejected /\ UNCHANGED stampVars

Spec == Init /\ [][Next]_vars

\* the call of the text-generation service settles: the promise awaited in
\* handleSend resolves or rejects, and the continuation then runs
SpecSettling ==
    /\ Init
    /\ [][Next]_vars
    /\ WF_vars((HandleSendResolved \/ HandleSendRejected) /\ UNCHANGED stampVars)

----------------------------------------------------------------------------
(* The application with the ids of the messages: addMessage gives each
   message the id Date.now().toString() when its updater runs,
   src/App.tsx:214-216; the greeting has the id '1', src/App.tsx:199-205 *)

GreetingId == 1

InitIds ==
    /\ messages = <<Msg("ai", Greeting, None)>>
    /\ isLoading = FALSE
    /\ uploadedFile = None
    /\ csvData = None
    /\ crashed = FALSE
    /\ file = None
    /\ aiResponse = None
    /\ pending = 0
    /\ ids = <<GreetingId>>
    /\ clock = GreetingId + 1    \* Date.now() is past the id of the greeting
    /\ profileIdle
    /\ extractIdle

\* the clock readings of n updaters run one after the other from the time
\* now on: each in the millisecond of the one before or in the next one
RECURSIVE Readings(_, _)
Readings(n, now) ==
    IF n = 0 THEN {<<>>}
    ELSE {<<t>> \o rest : t \in {u \in {now, now + 1} : u <= MaxClock},
                          rest \in Readings(n - 1, now)}
         \ {ts \in [1..n -> 0..MaxClock] : \E i \in 1..(n - 1) : ts[i] > ts[i + 1]}

\* the messages a handler appended get their ids
StampAppended ==
    \E ts \in Readings(Len(messages') - Len(messages), clock) :
        /\ ids' = ids \o ts
        /\ clock' = IF ts = <<>> THEN clock ELSE ts[Len(ts)]

\* time passes between two handlers
Tick ==
    /\ clock < MaxClock
    /\ clock' = clock + 1
    /\ UNCHANGED <<messages, isLoading, uploadedFile, csvData, crashed, file,
                   aiResponse, pending, ids, profileVars, extractVars>>

NextIds ==
    \/ HandleFileUpload /\ StampAppended
    \/ HandleSend /\ StampAppended
    \/ HandleSendResolved /\ StampAppended
    \/ HandleSendRejected /\ StampAppended
    \/ Tick

SpecIds == InitIds /\ [][NextIds]_vars

----------------------------------------------------------------------------
(* The profiling pass on its own: analyzeColumns and validateCsvData applied
   to every generated table *)

InitProfile ==
    /\ text \in TableTexts
    /\ columns = None
    /\ issues = None
    /\ report = None
    /\ messages = <<>> /\ isLoading = FALSE /\ uploadedFile = None
    /\ csvData = None /\ crashed = FALSE /\ file = None /\ aiResponse = None
    /\ pending = 0
    /\ stampIdle
    /\ extractIdle

Profile ==
    /\ columns = None
    /\ columns' = Some(analyzeColumns(text))
    /\ issues' = IF Len(linesOf(text)) < 2 THEN None
                 ELSE Some(validateCsvData(headersOf(text), rowsOf(text),
                                           analyzeColumns(text)))
    /\ report' = IF issues' # None /\ Len(issues'[1]) > 0
                 THEN Some(formatValidationIssues(issues'[1]))
                 ELSE None
    /\ UNCHANGED <<text, appVars, extractVars>>

NextProfile == Profile

SpecProfile == InitProfile /\ [][NextProfile]_vars

----------------------------------------------------------------------------
(* The profiling pass on the tables for the validator *)

InitValidate ==
    /\ text \in ValidatorTexts
    /\ columns = None
    /\ issues = None
    /\ report = None
    /\ messages = <<>> /\ isLoading = FALSE /\ uploadedFile = None
    /\ csvData = None /\ crashed = FALSE /\ file = None /\ aiResponse = None
    /\ pending = 0
    /\ stampIdle
    /\ extractIdle

SpecValidate == InitValidate /\ [][NextProfile]_vars

----------------------------------------------------------------------------
(* The profiling pass on the tables for the report *)

InitReport ==
    /\ text \in ReportTexts
    /\ columns = None
    /\ issues = None
    /\ report = None
    /\ messages = <<>> /\ isLoading = FALSE /\ uploadedFile = None
    /\ csvData = None /\ crashed = FALSE /\ file = None /\ aiResponse = None
    /\ pending = 0
    /\ stampIdle
    /\ extractIdle

SpecReport == InitReport /\ [][NextProfile]_vars

----------------------------------------------------------------------------
(* The profiling pass on the tables for the column profile *)

InitColumn ==
    /\ text \in ColumnTexts
    /\ columns = None
    /\ issues = None
    /\ report = None
    /\ messages = <<>> /\ isLoading = FALSE /\ uploadedFile = None
    /\ csvData = None /\ crashed = FALSE /\ file = None /\ aiResponse = None
    /\ pending = 0
    /\ stampIdle
    /\ extractIdle

SpecColumn == InitColumn /\ [][NextProfile]_vars

----------------------------------------------------------------------------
(* The profiling pass on the tables for the statistics *)

InitStats ==
    /\ text \in NumberTexts
    /\ columns = None
    /\ issues = None
    /\ report = None
    /\ messages = <<>> /\ isLoading = FALSE /\ uploadedFile = None
    /\ csvData = None /\ crashed = FALSE /\ file = None /\ aiResponse = None
    /\ pending = 0
    /\ stampIdle
    /\ extractIdle

SpecStats == InitStats /\ [][NextProfile]_vars

----------------------------------------------------------------------------
(* The profiling pass on the tables for the rounding of the statistics *)

InitDecimals ==
    /\ text \in DecimalTexts
    /\ columns = None
    /\ issues = None
    /\ report = None
    /\ messages = <<>> /\ isLoading = FALSE /\ uploadedFile = None
    /\ csvData = None /\ crashed = FALSE /\ file = None /\ aiResponse = None
    /\ pending = 0
    /\ stampIdle
    /\ extractIdle

SpecDecimals == InitDecimals /\ [][NextProfile]_vars

----------------------------------------------------------------------------
(* The profiling pass on the tables for the cell parser *)

InitCells ==
    /\ text \in RawTexts
    /\ columns = None
    /\ issues = None
    /\ report = None
    /\ messages = <<>> /\ isLoading = FALSE /\ uploadedFile = None
    /\ csvData = None /\ crashed = FALSE /\ file = None /\ aiResponse = None
    /\ pending = 0
    /\ stampIdle
    /\ extractIdle

SpecCells == InitCells /\ [][NextProfile]_vars

----------------------------------------------------------------------------
(* The payload extraction on its own *)

InitExtract ==
    /\ pieces \in SeqsUpTo(ExtractPieces, MaxPieces)
    /\ extracted = None
    /\ rendered = None
    /\ messages = <<>> /\ isLoading = FALSE /\ uploadedFile = None
    /\ csvData = None /\ crashed = FALSE /\ file = None /\ aiResponse = None
    /\ pending = 0
    /\ stampIdle
    /\ profileIdle

Extract ==
    /\ extracted = None
    /\ extracted' = Some(extractPayload(RenderAll(pieces)))
    /\ rendered' = renderMessageChart(extractPayload(RenderAll(pieces)).chartData)
    /\ UNCHANGED <<pieces, appVars, profileVars>>

NextExtract == Extract

SpecExtract == InitExtract /\ [][NextExtract]_vars

----------------------------------------------------------------------------
(* The payload extraction on responses that carry a chart object *)

InitChart ==
    /\ pieces \in ChartResponses
    /\ extracted = None
    /\ rendered = None
    /\ messages = <<>> /\ isLoading = FALSE /\ uploadedFile = None
    /\ csvData = None /\ crashed = FALSE /\ file = None /\ aiResponse = None
    /\ pending = 0
    /\ stampIdle
    /\ profileIdle

SpecChart == InitChart /\ [][NextExtract]_vars

----------------------------------------------------------------------------
(* Steps of the application, told apart by what they change *)

\* a step of reader.onload: the only handler that appends to the transcript
\* and leaves isLoading and crashed as they are
UploadStep == messages' # messages /\ isLoading' = isLoading /\ crashed' = crashed

\* a step of handleSend resumed with a response text
ResolvedStep == isLoading /\ ~crashed /\ aiResponse' # None /\ (~isLoading' \/ crashed')

\* a step of handleSend resumed either way
ResumedStep == isLoading /\ ~crashed /\ (~isLoading' \/ crashed')

\* a dataset is active
DatasetActive == csvData # None /\ uploadedFile # None

AiMessages(msgs) == {i \in 1..Len(msgs) : msgs[i].sender = "ai"}

LastMessage(msgs) == msgs[Len(msgs)]

\* a message with the given first words is in the transcript
Said(words) ==
    \E i \in 1..Len(messages) :
        messages[i].text # <<>> /\ messages[i].text[1] = words

----------------------------------------------------------------------------
(* C1: an active dataset is one the integrity validator reported no issue
   for, whichever handler installed it. *)
C1_ActiveDatasetIsValidated ==
    DatasetActive =>
        validateCsvData(headersOf(csvData[1]), rowsOf(csvData[1]),
                        uploadedFile[1].columns) = <<>>

(* C2: a csv block whose body fails profiling leaves csvData and
   uploadedFile as they were, and the rest of the response is still appended
   as the ai message.  Stated for a response that arrives while a dataset is
   active and whose csv block has a body. *)
C2_RejectedReplacementKeepsDataset ==
    [][(/\ ResolvedStep
        /\ DatasetActive
        /\ fenceMatch(aiResponse'[1], "csv") # None
        /\ fenceMatch(aiResponse'[1], "csv")[1].group # <<>>
        /\ analyzeColumns(fenceMatch(aiResponse'[1], "csv")[1].group) = <<>>)
       => /\ ~crashed'
          /\ csvData' = csvData
          /\ uploadedFile' = uploadedFile
          /\ LastMessage(messages').sender = "ai"
          /\ LastMessage(messages').text = trim(replaceFence(aiResponse'[1], "csv"))]_vars

(* C3: resuming handleSend never crashes: it ends with isLoading false and
   exactly one more ai message in the transcript, whatever the response and
   whether or not a file is uploaded. *)
C3_ResumeNeverCrashes ==
    [][ResumedStep
       => /\ ~crashed'
          /\ ~isLoading'
          /\ Cardinality(AiMessages(messages')) = Cardinality(AiMessages(messages)) + 1]_vars

----------------------------------------------------------------------------
(* Helpers of the extraction claims *)

PiecesOf(kind) == {i \in 1..Len(pieces) : pieces[i].kind = kind}

ThePiece(kind) == CHOOSE i \in PiecesOf(kind) : TRUE

\* the parts with part i left out
Without(ps, i) == SubSeq(ps, 1, i - 1) \o SubSeq(ps, i + 1, Len(ps))

\* the parts with parts i and j exchanged
Swapped(ps, i, j) ==
    [k \in 1..Len(ps) |-> IF k = i THEN ps[j] ELSE IF k = j THEN ps[i] ELSE ps[k]]

FenceSymbols == {"F", "csv", "json"}

(* C4: for a response with one json block whose content does not parse (and
   no csv block), the extraction yields no chart, and the text shown is the
   response with that block removed, trimmed, free of fence markers. *)
C4_MalformedJsonBlockRemoved ==
    (/\ extracted # None
     /\ PiecesOf("csv") = {}
     /\ Cardinality(PiecesOf("json")) = 1
     /\ ~JSONparse(pieces[ThePiece("json")].body).ok)
    => /\ extracted[1].chartData = None
       /\ extracted[1].responseText = trim(RenderAll(Without(pieces, ThePiece("json"))))
       /\ Range(extracted[1].responseText) \cap FenceSymbols = {}

(* C8: for a response with one csv block and one valid json block, exchanging
   the two blocks yields the same text shown, the same replacement dataset
   and the same chart, and the text shown holds no fence marker. *)
C8_BlockOrderIndependent ==
    (/\ extracted # None
     /\ Cardinality(PiecesOf("csv")) = 1
     /\ Cardinality(PiecesOf("json")) = 1
     /\ JSONparse(pieces[ThePiece("json")].body).ok)
    => /\ extractPayload(RenderAll(Swapped(pieces, ThePiece("csv"), ThePiece("json"))))
              = extracted[1]
       /\ Range(extracted[1].responseText) \cap FenceSymbols = {}

(* C8 amended: for a response with one csv block with a nonempty body and one
   valid json block, exchanging the two blocks yields the same text shown,
   the same replacement dataset and the same chart, and the text shown holds
   no fence marker. *)
C8_OrderIndependentForNonemptyCsv ==
    (/\ extracted # None
     /\ Cardinality(PiecesOf("csv")) = 1
     /\ Cardinality(PiecesOf("json")) = 1
     /\ pieces[ThePiece("csv")].body # <<>>
     /\ JSONparse(pieces[ThePiece("json")].body).ok)
    => /\ extractPayload(RenderAll(Swapped(pieces, ThePiece("csv"), ThePiece("json"))))
              = extracted[1]
       /\ Range(extracted[1].responseText) \cap FenceSymbols = {}

\* a csv block, text, then a json block were extracted: dataset, chart and text
C8_Witness ==
    /\ extracted # None
    /\ Len(pieces) = 3
    /\ pieces[1].kind = "csv" /\ pieces[2].kind = "text" /\ pieces[3].kind = "json"
    /\ extracted[1].newCsvData = Some(<<"a", "NL", "1">>)
    /\ extracted[1].chartData # None
    /\ extracted[1].chartData[1].kind = "object"
    /\ extracted[1].responseText = <<"x">>

----------------------------------------------------------------------------
(* Upload claims *)

\* the profiling pass of an uploaded text produced a profile with no issue
PassSucceeds(t) ==
    /\ t # <<>>
    /\ analyzeColumns(t) # <<>>
    /\ validateCsvData(headersOf(t), rowsOf(t), analyzeColumns(t)) = <<>>

\* the text cannot be profiled at all
PassFails(t) == t = <<>> \/ analyzeColumns(t) = <<>>

Installed(f) ==
    /\ csvData' = Some(f.text)
    /\ uploadedFile' = Some([name |-> f.name, columns |-> analyzeColumns(f.text)])

(* C5 as stated: an upload whose profiling pass does not fully succeed leaves
   csvData and uploadedFile unchanged; a pass that fully succeeds replaces
   both together. *)
C5_FailedUploadKeepsDataset ==
    [][UploadStep
       => IF PassSucceeds(file'[1].text)
          THEN Installed(file'[1])
          ELSE csvData' = csvData /\ uploadedFile' = uploadedFile]_vars

(* C5 amended: an upload whose text cannot be profiled (empty, fewer than 2
   lines) leaves csvData and uploadedFile unchanged; an upload whose profile
   has validation issues clears both together (both become null); an upload
   whose profile has no issue replaces both together. *)
C5_UploadIsAllOrNothing ==
    [][UploadStep
       => IF PassSucceeds(file'[1].text) THEN Installed(file'[1])
          ELSE IF PassFails(file'[1].text)
          THEN csvData' = csvData /\ uploadedFile' = uploadedFile
          ELSE csvData' = None /\ uploadedFile' = None]_vars

\* a file with validation issues was uploaded after a file had been accepted,
\* and the dataset is gone
C5_Witness ==
    /\ file # None
    /\ ~PassSucceeds(file[1].text) /\ ~PassFails(file[1].text)
    /\ Said("Successfully uploaded ")
    /\ SubSeq(LastMessage(messages).text, 1, 1) = MsgValidationFailed
    /\ csvData = None /\ uploadedFile = None

(* C6: whenever a dataset is active, the stored column profiles are the
   profile of the stored dataset text computed from scratch. *)
C6_ProfilesMatchDataset ==
    DatasetActive => uploadedFile[1].columns = analyzeColumns(csvData[1])

\* a replacement recovered from a response was accepted over an uploaded file
C6_Witness ==
    /\ DatasetActive
    /\ file # None /\ aiResponse # None
    /\ extractPayload(aiResponse[1]).newCsvData = csvData
    /\ csvData[1] # file[1].text
    /\ uploadedFile[1].columns # <<>>
    /\ ~isLoading

----------------------------------------------------------------------------
(* Profiling claims *)

\* lines of the raw text that are not blank
NonBlankLines(t) == SelectSeq(split(t, "NL"), NotBlank)

\* blank text, fewer than 2 non-blank lines, or no header with a name
ParseFailure(t) ==
    \/ trim(t) = <<>>
    \/ Len(NonBlankLines(t)) < 2
    \/ \A h \in Range(parseCells(NonBlankLines(t)[1])) : h = <<>>

\* cells of column colIndex that are present and not blank, counted on the
\* parsed rows
NonMissingCells(t, colIndex) ==
    {r \in 1..Len(rowsOf(t)) :
        colIndex <= Len(rowsOf(t)[r]) /\ trim(rowsOf(t)[r][colIndex]) # <<>>}

Profiled == columns # None /\ columns[1] # <<>>

(* C7: analyzeColumns yields no profile exactly on ParseFailure (blank text,
   fewer than 2 non-blank lines, no non-empty header), and otherwise a
   nonempty sequence of profiles none of which has an empty name. *)
C7_ParseFailureExactly ==
    columns # None =>
        /\ (columns[1] = <<>>) <=> ParseFailure(text)
        /\ \A i \in 1..Len(columns[1]) : columns[1][i].name # <<>>

(* C9: for every column profile, missingCount plus the number of the column's
   non-missing cells equals totalRows, the number of data rows, also when
   rows are shorter or longer than the header. *)
C9_MissingCountInvariant ==
    Profiled =>
        \A i \in 1..Len(columns[1]) :
            /\ columns[1][i].totalRows = Len(rowsOf(text))
            /\ columns[1][i].missingCount + Cardinality(NonMissingCells(text, i))
                   = columns[1][i].totalRows

(* C10: a column profile has Stats if and only if the column has a
   non-missing value; a column with none has no Stats and type Empty. *)
C10_StatsIffNonMissing ==
    Profiled =>
        \A i \in 1..Len(columns[1]) :
            /\ (columns[1][i].stats # None) <=> (NonMissingCells(text, i) # {})
            /\ NonMissingCells(text, i) = {} => columns[1][i].type = "Empty"

----------------------------------------------------------------------------
(* Validator claims *)

Validated == columns # None /\ issues # None

\* the header cells as the first line has them, before any is dropped
OriginalHeaderCount == Len(split(linesOf(text)[1], ","))

IssuesAtRow(n) == {i \in 1..Len(issues[1]) : issues[1][i].row = n}

LengthIssuesAtRow(n) ==
    {i \in IssuesAtRow(n) : issues[1][i].type = "INCONSISTENT_ROW_LENGTH"}

\* names of the columns the profile resolved to Numeric
NumericNames ==
    {columns[1][i].name : i \in {k \in 1..Len(columns[1]) : columns[1][k].type = "Numeric"}}

\* positions of row r whose cell is not blank and not a number although the
\* header there names a Numeric column
Offending(r) ==
    {c \in 1..Len(rowsOf(text)[r]) :
        /\ headersOf(text)[c] \in NumericNames
        /\ trim(rowsOf(text)[r][c]) # <<>>
        /\ Number(rowsOf(text)[r][c]).nan}

\* the k-th smallest element of a set of positions
Nth(S, k) == CHOOSE c \in S : Cardinality({d \in S : d <= c}) = k

(* C11: every data row whose cell count differs from the header count has
   exactly one issue, an INCONSISTENT_ROW_LENGTH issue with row number
   (0-based index + 2) and a message naming the expected and the found width,
   and no MIXED_DATA_TYPE issue; a row of header width has no
   INCONSISTENT_ROW_LENGTH issue. *)
C11_RowLengthCheck ==
    Validated =>
        \A r \in 1..Len(rowsOf(text)) :
            IF Len(rowsOf(text)[r]) # Len(headersOf(text))
            THEN /\ Cardinality(LengthIssuesAtRow(r + 1)) = 1
                 /\ IssuesAtRow(r + 1) = LengthIssuesAtRow(r + 1)
                 /\ \A i \in LengthIssuesAtRow(r + 1) :
                        issues[1][i].message =
                            [expected |-> Len(headersOf(text)),
                             found |-> Len(rowsOf(text)[r])]
            ELSE LengthIssuesAtRow(r + 1) = {}

\* a table of width 3 whose first data row has mixed-type issues and whose
\* second data row, of one cell, has the row-length issue
C11_Witness ==
    /\ Validated
    /\ Len(headersOf(text)) = 3
    /\ Len(rowsOf(text)) = 2 /\ Len(rowsOf(text)[2]) = 1
    /\ \E i \in IssuesAtRow(2) : issues[1][i].type = "MIXED_DATA_TYPE"
    /\ \E i \in IssuesAtRow(3) :
           issues[1][i].message = [expected |-> 3, found |-> 1]

(* C12: in a table whose rows all have header width, a column that holds
   numbers in some rows and the cell N/A in exactly one row yields exactly
   one MIXED_DATA_TYPE issue naming that column, that row and the value N/A. *)
C12_MixedTypeDetected ==
    Validated =>
        \A c \in 1..Len(headersOf(text)) :
            LET rows == rowsOf(text)
                odd == {r \in 1..Len(rows) : c <= Len(rows[r]) /\ rows[r][c] = <<"N/A">>}
            IN  (/\ \A r \in 1..Len(rows) : Len(rows[r]) = Len(headersOf(text))
                 /\ Cardinality(odd) = 1
                 /\ \E r \in 1..Len(rows) : isNumeric(rows[r][c])
                 /\ \A r \in 1..Len(rows) : r \in odd \/ isNumeric(rows[r][c]))
                => \A r \in odd :
                       Cardinality({i \in IssuesAtRow(r + 1) :
                                       /\ issues[1][i].type = "MIXED_DATA_TYPE"
                                       /\ issues[1][i].column = Some(headersOf(text)[c])
                                       /\ issues[1][i].value = Some(<<"N/A">>)}) = 1

(* C13: the issue list is in row-then-column discovery order with nothing
   left out and nothing merged: row numbers are at least 2 and never
   decrease along the list, a row of the wrong width has one issue, and a row
   of header width has one issue per offending cell, the k-th of them for
   the k-th offending position from the left, whichever rows come before. *)
C13_IssuesInDiscoveryOrder ==
    Validated =>
        /\ \A i \in 1..Len(issues[1]) : issues[1][i].row >= 2
        /\ \A i, j \in 1..Len(issues[1]) : i < j => issues[1][i].row <= issues[1][j].row
        /\ \A r \in 1..Len(rowsOf(text)) :
               IF Len(rowsOf(text)[r]) # Len(headersOf(text))
               THEN Cardinality(IssuesAtRow(r + 1)) = 1
               ELSE /\ Cardinality(IssuesAtRow(r + 1)) = Cardinality(Offending(r))
                    /\ \A i \in IssuesAtRow(r + 1) :
                           LET k == Cardinality({j \in IssuesAtRow(r + 1) : j <= i})
                               c == Nth(Offending(r), k)
                           IN  /\ issues[1][i].column = Some(headersOf(text)[c])
                               /\ issues[1][i].value = Some(rowsOf(text)[r][c])

\* two issues of one row, in column order, and after them the issue of the
\* next row
C13_Witness ==
    /\ Validated
    /\ Len(issues[1]) = 3
    /\ issues[1][1].row = 2 /\ issues[1][1].value = Some(<<"N/A">>)
    /\ issues[1][2].row = 2 /\ issues[1][2].value = Some(<<"x">>)
    /\ issues[1][3].row = 3 /\ issues[1][3].type = "INCONSISTENT_ROW_LENGTH"

(* C18: no column profile has an empty name (headers empty after trimming
   are dropped), and the row-length check compares each row's cell count with
   the number of header cells of the first line, dropped ones included. *)
C18_BlankHeadersDropped ==
    Validated =>
        /\ \A i \in 1..Len(columns[1]) : columns[1][i].name # <<>>
        /\ \A r \in 1..Len(rowsOf(text)) :
               (Len(rowsOf(text)[r]) # OriginalHeaderCount)
                   <=> \E i \in LengthIssuesAtRow(r + 1) :
                           issues[1][i].message.expected = OriginalHeaderCount

----------------------------------------------------------------------------
(* Report claim *)

BulletWords ==
    {"*   **Mixed Data Type** in column ", "*   **Inconsistent Row Length** at Row "}

\* positions of the bullets of a report
Bullets(rep) == {i \in 1..Len(rep) : rep[i] \in BulletWords}

\* the issue type a bullet announces
TypeOfBullet(rep, pos) ==
    IF rep[pos] = "*   **Mixed Data Type** in column "
    THEN "MIXED_DATA_TYPE" ELSE "INCONSISTENT_ROW_LENGTH"

\* the row number a bullet announces: the word after "Row "
RowOfBullet(rep, pos) ==
    IF rep[pos] = "*   **Inconsistent Row Length** at Row "
    THEN rep[pos + 1]
    ELSE rep[1 + CHOOSE j \in pos..Len(rep) :
                     rep[j] = " (Row " /\ \A m \in pos..(j - 1) : rep[m] # " (Row "]

\* positions of the words announcing a remainder
Remainders(rep) == {i \in 1..Len(rep) : rep[i] = "...and "}

Shown(n) == IF n < 5 THEN n ELSE 5

(* C14: the message for n > 0 validation issues lists exactly min(n, 5)
   issues, the first ones in validator order (here: their types and row
   numbers, bullet by bullet), and states the remainder n - 5 if and only if
   n > 5. *)
C14_ReportShowsFirstFive ==
    (Validated /\ Len(issues[1]) > 0) =>
        /\ report # None
        /\ Cardinality(Bullets(report[1])) = Shown(Len(issues[1]))
        /\ \A k \in 1..Shown(Len(issues[1])) :
               LET pos == Nth(Bullets(report[1]), k)
               IN  /\ TypeOfBullet(report[1], pos) = issues[1][k].type
                   /\ RowOfBullet(report[1], pos) = ToString(issues[1][k].row)
        /\ (Remainders(report[1]) # {}) <=> (Len(issues[1]) > 5)
        /\ \A i \in Remainders(report[1]) :
               report[1][i + 1] = ToString(Len(issues[1]) - 5)

\* six issues of both types were reported: five bullets and a remainder of 1
C14_Witness ==
    /\ Validated
    /\ Len(issues[1]) = 6
    /\ \E i, j \in 1..5 : issues[1][i].type # issues[1][j].type
    /\ report # None
    /\ Cardinality(Bullets(report[1])) = 5
    /\ \E i \in Remainders(report[1]) : report[1][i + 1] = "1"

----------------------------------------------------------------------------
(* Column type claims *)

\* the cells of column c, row by row, and those that are not blank
CellsOf(c) == [r \in 1..Len(rowsOf(text)) |-> rowsOf(text)[r][c]]
NonMissingOf(c) == SelectSeq(CellsOf(c), NotBlank)

\* the literals a cell is compared with, letter case aside
BooleanLiterals == {<<"true">>, <<"false">>, <<"yes">>, <<"no">>, <<"0">>, <<"1">>}

\* classification of a cell that is not blank: Boolean, then Numeric, then
\* String
CellType(v) ==
    IF v \in BooleanLiterals THEN "Boolean"
    ELSE IF ~Number(v).nan THEN "Numeric"
    ELSE "String"

CellTypesOf(c) == {CellType(v) : v \in Range(NonMissingOf(c))}

\* the reduction over the set of cell classifications
Reduced(T) ==
    IF T = {} THEN "Empty"
    ELSE IF Cardinality(T) = 1 THEN CHOOSE t \in T : TRUE
    ELSE IF "String" \in T THEN "String (Mixed)"
    ELSE "Numeric"

\* the re-labeling that follows the reduction: not Empty, not Numeric and at
\* most 2 distinct values gives Boolean
Relabeled(raw, c) ==
    IF raw \notin {"Empty", "Numeric"} /\ Cardinality(Range(NonMissingOf(c))) <= 2
    THEN "Boolean" ELSE raw

ResolvedTypes == {"Numeric", "Boolean", "String", "String (Mixed)", "Empty"}

FullWidth == \A r \in 1..Len(rowsOf(text)) : Len(rowsOf(text)[r]) = Len(headersOf(text))

(* C15: the type of a column is the reduction over the set of classifications
   of its non-missing cells (no cell: Empty; one classification: that type;
   String with another: "String (Mixed)"; Numeric with Boolean: Numeric),
   followed by the re-labeling of few-valued columns, and is always one of
   Numeric, Boolean, String, "String (Mixed)", Empty. *)
C15_TypeReduction ==
    (Profiled /\ FullWidth) =>
        \A c \in 1..Len(columns[1]) :
            /\ columns[1][c].type = Relabeled(Reduced(CellTypesOf(c)), c)
            /\ columns[1][c].type \in ResolvedTypes

(* C16: cells are classified blank, then Boolean, then Numeric, then String,
   so that the cells 0 and 1 are Boolean and not Numeric: a column whose
   non-missing cells all hold one and the same value is Numeric exactly when
   that value classifies as Numeric. *)
C16_CellClassification ==
    (Profiled /\ FullWidth) =>
        \A c \in 1..Len(columns[1]) :
            Cardinality(Range(NonMissingOf(c))) = 1
            => \A v \in Range(NonMissingOf(c)) :
                   (columns[1][c].type = "Numeric") <=> (CellType(v) = "Numeric")

(* C17: a column with a non-missing value that did not resolve to Numeric
   (some non-missing cell is not a number) and has at most 2 distinct
   non-missing values is labeled Boolean; a column whose non-missing cells
   are all numbers is Numeric whatever the number of its distinct values. *)
C17_BooleanRelabeling ==
    (Profiled /\ FullWidth) =>
        \A c \in 1..Len(columns[1]) :
            NonMissingOf(c) # <<>> =>
                IF \A v \in Range(NonMissingOf(c)) : ~Number(v).nan
                THEN columns[1][c].type = "Numeric"
                ELSE Cardinality(Range(NonMissingOf(c))) <= 2
                     => columns[1][c].type = "Boolean"

\* a column of two distinct words is Boolean next to a column of one number,
\* which stays Numeric
C17_Witness ==
    /\ Profiled
    /\ Range(NonMissingOf(2)) = {<<"a">>, <<"b">>}
    /\ columns[1][2].type = "Boolean"
    /\ Range(NonMissingOf(1)) = {<<"1">>}
    /\ columns[1][1].type = "Numeric"

----------------------------------------------------------------------------
(* Statistics claim *)

\* the numbers of column c, in row order, in thousandths
NumbersOf(c) == [i \in 1..Len(NonMissingOf(c)) |-> Number(NonMissingOf(c)[i]).milli]

\* the k-th element of the ascending order of the numbers data
OrderStatistic(data, k) ==
    CHOOSE x \in Range(data) :
        /\ Cardinality({i \in 1..Len(data) : data[i] < x}) < k
        /\ Cardinality({i \in 1..Len(data) : data[i] <= x}) >= k

\* twice the median: the middle element twice, or the two middle elements
TwiceMedian(data) ==
    IF Len(data) % 2 = 1
    THEN 2 * OrderStatistic(data, (Len(data) + 1) \div 2)
    ELSE OrderStatistic(data, Len(data) \div 2)
         + OrderStatistic(data, Len(data) \div 2 + 1)

Distance(a, b) == IF a < b THEN b - a ELSE a - b

\* v, in thousandths, is num / den rounded to 2 decimals
RoundedFrom(v, num, den) == v % 10 = 0 /\ 2 * Distance(den * v, num) <= 10 * den

NumericColumn(c) ==
    /\ NonMissingOf(c) # <<>>
    /\ \A v \in Range(NonMissingOf(c)) : ~Number(v).nan

(* C20: for a nonempty sequence of numbers the stored mean is sum / count
   and the stored median is the middle element of the ascending order (odd
   count) or the average of the two middle elements (even count), each
   rounded to 2 decimals; min and max are the first and last element of the
   ascending order.  [1,2,3,4] gives mean 2.5, median 2.5, min 1, max 4. *)
C20_NumericStatistics ==
    (Profiled /\ FullWidth) =>
        \A c \in 1..Len(columns[1]) :
            NumericColumn(c) =>
                LET data == NumbersOf(c)
                    stats == columns[1][c].stats[1]
                IN  /\ columns[1][c].stats # None
                    /\ RoundedFrom(stats.mean, SumSeq(data), Len(data))
                    /\ RoundedFrom(stats.median, TwiceMedian(data), 2)
                    /\ stats.min = OrderStatistic(data, 1)
                    /\ stats.max = OrderStatistic(data, Len(data))
                    /\ (data = <<1000, 2000, 3000, 4000>>
                        => /\ stats.mean = 2500 /\ stats.median = 2500
                           /\ stats.min = 1000 /\ stats.max = 4000)
                    /\ (Len(data) = 1
                        => /\ stats.mean = data[1] /\ stats.median = data[1]
                           /\ stats.min = data[1] /\ stats.max = data[1])

\* the numbers 4, 1, 3, 2, given out of order, were profiled
C20_Witness ==
    /\ Profiled
    /\ NumbersOf(2) = <<4000, 1000, 3000, 2000>>
    /\ columns[1][2].stats[1].mean = 2500
    /\ columns[1][2].stats[1].median = 2500
    /\ columns[1][2].stats[1].min = 1000
    /\ columns[1][2].stats[1].max = 4000

----------------------------------------------------------------------------
(* Cell parser claim *)

\* a cell trimmed, and without its first and last character when both are
\* double quotes
Unwrapped(raw) ==
    LET t == trim(raw)
    IN  IF Len(t) >= 2 /\ t[1] = "q" /\ t[Len(t)] = "q"
        THEN SubSeq(t, 2, Len(t) - 1)
        ELSE t

\* the header cell and the data cell of a two-line, one-column text
RawHeader == split(text, "NL")[1]
RawValue == split(text, "NL")[2]

(* C19: a header or cell is normalised by trimming surrounding whitespace and
   removing one leading and one trailing double quote when both are present;
   quotes inside the cell and a lone leading or trailing quote stay.  Read
   off the profile: the column name, and the value the column counts. *)
C19_QuoteNormalisation ==
    (Profiled /\ Len(split(text, "NL")) = 2) =>
        /\ columns[1][1].name = Unwrapped(RawHeader)
        /\ DOMAIN columns[1][1].stats[1].valueCounts =
               IF trim(Unwrapped(RawValue)) = <<>> THEN {} ELSE {Unwrapped(RawValue)}

----------------------------------------------------------------------------
(* Rounding claim *)

StoredStats(c) == columns[1][c].stats[1]

\* v, in thousandths, has at most 2 decimals
TwoDecimals(v) == v % 10 = 0

(* C21: in the stored statistics of every Numeric column all five values,
   mean, median, stdDev, min and max, are rounded to 2 decimals. *)
C21_AllFiveRounded ==
    Profiled =>
        \A c \in 1..Len(columns[1]) :
            (columns[1][c].type = "Numeric" /\ columns[1][c].stats # None) =>
                /\ TwoDecimals(StoredStats(c).mean)
                /\ TwoDecimals(StoredStats(c).median)
                /\ TwoDecimals(StoredStats(c).stdDev)
                /\ TwoDecimals(StoredStats(c).min)
                /\ TwoDecimals(StoredStats(c).max)

----------------------------------------------------------------------------
(* Duplicate block claim *)

\* the first part of the kind, in the order of the response
FirstPiece(kind) == CHOOSE i \in PiecesOf(kind) : \A j \in PiecesOf(kind) : i <= j

\* the response without its first part of the kind, as it is shown
ResidualWithoutFirst(kind) == trim(RenderAll(Without(pieces, FirstPiece(kind))))

(* C22: of two csv blocks (and no json block) the first one is taken as the
   replacement dataset and only that one is removed from the text shown; of
   two json blocks (and no csv block) the first one is taken as the chart
   and only that one is removed from the text shown; the later block of the
   tag stays in the text shown as it is. *)
C22_FirstBlockOfTagWins ==
    /\ (/\ extracted # None
        /\ Cardinality(PiecesOf("csv")) = 2
        /\ PiecesOf("json") = {})
       => /\ extracted[1].newCsvData = Some(trim(pieces[FirstPiece("csv")].body))
          /\ extracted[1].chartData = None
          /\ extracted[1].responseText = ResidualWithoutFirst("csv")
    /\ (/\ extracted # None
        /\ Cardinality(PiecesOf("json")) = 2
        /\ PiecesOf("csv") = {})
       => /\ extracted[1].newCsvData = None
          /\ (JSONparse(pieces[FirstPiece("json")].body).ok
              => extracted[1].chartData # None)
          /\ extracted[1].responseText = ResidualWithoutFirst("json")

----------------------------------------------------------------------------
(* Chart claim *)

\* the fields written in the json block of the response
WrittenFields == Range(pieces[ThePiece("json")].body)

WrittenType ==
    IF WrittenFields \cap TypeTokens = {} THEN "undefined"
    ELSE CHOOSE t \in WrittenFields \cap TypeTokens : TRUE

CategoryTypes == {"bar", "line", "area", "pie"}
SupportedTypes == CategoryTypes \cup {"scatter"}

LacksPair ==
    \/ /\ WrittenType \in CategoryTypes
       /\ ~({"categoryKey", "dataKey"} \subseteq WrittenFields)
    \/ /\ WrittenType = "scatter"
       /\ ~({"xKey", "yKey"} \subseteq WrittenFields)

ChartExtracted ==
    /\ extracted # None
    /\ Cardinality(PiecesOf("json")) = 1
    /\ PiecesOf("csv") = {}

(* C23: a chart object that parses but lacks the key pair of its type
   (categoryKey and dataKey for bar, line, area and pie; xKey and yKey for
   scatter) is attached to the ai message with its type and fields as written,
   and what is shown for it is the notice naming the missing pair, never a
   chart; a type outside the five supported ones shows the unsupported-type
   notice. *)
C23_IncompleteChartShowsNotice ==
    ChartExtracted =>
        /\ extracted[1].chartData # None
        /\ extracted[1].chartData[1].type = WrittenType
        /\ extracted[1].chartData[1].fields = WrittenFields \ (TypeTokens \cup {"{", "}"})
        /\ rendered # None
        /\ (LacksPair /\ WrittenType \in CategoryTypes)
           => /\ Len(rendered[1]) = 2
              /\ rendered[1][2] = "chart requires a categoryKey and a dataKey."
        /\ (LacksPair /\ WrittenType = "scatter")
           => rendered[1] = <<"Scatter", "chart requires an xKey and a yKey.">>
        /\ WrittenType \notin SupportedTypes
           => rendered[1] = <<"Unsupported chart type:", WrittenType>>

\* a pie chart with a categoryKey but no dataKey was attached and shows the
\* notice
C23_Witness ==
    /\ ChartExtracted
    /\ WrittenType = "pie"
    /\ "categoryKey" \in WrittenFields /\ "dataKey" \notin WrittenFields
    /\ extracted[1].chartData[1].type = "pie"
    /\ rendered = Some(<<"Pie", "chart requires a categoryKey and a dataKey.">>)

----------------------------------------------------------------------------
(* Request claims *)

UserMessages(msgs) == {i \in 1..Len(msgs) : msgs[i].sender = "user"}

\* the last user message of the transcript, 0 if there is none
LastUserMessage ==
    IF UserMessages(messages) = {} THEN 0
    ELSE CHOOSE i \in UserMessages(messages) : \A j \in UserMessages(messages) : i >= j

\* a file was accepted after the request in flight was sent
UploadedSinceSend ==
    /\ isLoading
    /\ \E i \in (LastUserMessage + 1)..Len(messages) :
           messages[i].text[1] = "Successfully uploaded "

(* C24: a response to a request sent before a file was accepted never
   overwrites that file: after the response is processed csvData and
   uploadedFile are those of the newly uploaded file, even when the response
   carries a csv block. *)
C24_StaleResponseKeepsUpload ==
    [][(ResolvedStep /\ UploadedSinceSend /\ DatasetActive)
       => /\ csvData' = csvData
          /\ uploadedFile' = uploadedFile]_vars

(* C25: at most one request is in flight at any time: while isLoading is
   true no step appends a user message or starts a request, a request is
   started only together with the user message of a text that is not blank,
   and requests are in flight only while isLoading is true. *)
C25_SingleRequestInFlight ==
    [][/\ pending' <= 1
       /\ (pending' = 1) => isLoading'
       /\ isLoading => /\ UserMessages(messages') = UserMessages(messages)
                       /\ pending' <= pending
       /\ pending' > pending
          => /\ messages' # messages
             /\ LastMessage(messages').sender = "user"
             /\ trim(LastMessage(messages').text) # <<>>
       /\ UserMessages(messages') # UserMessages(messages)
          => pending' = pending + 1]_vars

\* a second request is in flight after the first one was answered
C25_Witness ==
    /\ isLoading
    /\ pending = 1
    /\ Cardinality(UserMessages(messages)) = 2
    /\ LastMessage(messages).sender = "user"

(* C27: uploadedFile is non-null if and only if csvData is a non-empty
   text, in every reachable state. *)
C27_DatasetHalvesTogether ==
    (uploadedFile # None) <=> (csvData # None /\ csvData[1] # <<>>)

\* a step of handleSend resumed with the failure of the call
RejectedStep == isLoading /\ ~crashed /\ ~isLoading' /\ aiResponse' = None

(* C30: when the call of the text-generation service fails, exactly one
   ai message, the apology without a chart, is appended, and csvData and
   uploadedFile (file name and column profiles) stay as they were. *)
C30_FailureLeavesDataset ==
    [][RejectedStep
       => /\ messages' = Append(messages, [sender |-> "ai", text |-> MsgApology,
                                           chartData |-> None])
          /\ csvData' = csvData
          /\ uploadedFile' = uploadedFile]_vars

\* the call failed while a dataset was active: the apology is the last
\* message and the dataset is still there
C30_Witness ==
    /\ ~isLoading
    /\ aiResponse = None
    /\ DatasetActive
    /\ Len(messages) >= 2
    /\ LastMessage(messages).text = MsgApology
    /\ messages[Len(messages) - 1].sender = "user"

(* C26: every accepted send eventually finishes: once isLoading is true,
   and given that the call settles, isLoading returns to false with an ai
   message (the reply or the apology) as the last message of the
   transcript. *)
C26_SendEventuallyFinishes ==
    isLoading ~> (~isLoading /\ ~crashed /\ LastMessage(messages).sender = "ai")

----------------------------------------------------------------------------
(* Distinct header names *)

DistinctNames ==
    \A i, j \in 1..Len(headersOf(text)) :
        headersOf(text)[i] = headersOf(text)[j] => i = j

\* a data row of header width with a cell that is neither blank nor a number
HasWordInFullRow ==
    \E r \in 1..Len(rowsOf(text)) :
        /\ Len(rowsOf(text)[r]) = Len(headersOf(text))
        /\ \E c \in 1..Len(rowsOf(text)[r]) :
               trim(rowsOf(text)[r][c]) # <<>> /\ Number(rowsOf(text)[r][c]).nan

(* C28: when all header names are distinct, the validator emits no
   MIXED_DATA_TYPE issue for a table profiled by analyzeColumns: every issue
   it reports is INCONSISTENT_ROW_LENGTH. *)
C28_DistinctNamesNoMixedType ==
    (Validated /\ DistinctNames) =>
        \A i \in 1..Len(issues[1]) : issues[1][i].type = "INCONSISTENT_ROW_LENGTH"

\* under the distinct names a, b a row of two cells holds a word next to a
\* number, column a is Numeric, and the validator reports nothing
C28_Witness ==
    /\ Validated
    /\ headersOf(text) = <<<<"a">>, <<"b">>>>
    /\ HasWordInFullRow
    /\ <<"a">> \in NumericNames
    /\ issues[1] = <<>>

----------------------------------------------------------------------------
(* Message ids *)

(* C29: every message of the transcript has an id different from the id of
   every other message, in every reachable state. *)
C29_MessageIdsUnique ==
    /\ Len(ids) = Len(messages)
    /\ \A i, j \in 1..Len(ids) : ids[i] = ids[j] => i = j

====
